---------------------------- MODULE Spec2Model ----------------------------
(***************************************************************************)
(* Model of plot_layer, the raster plotting helper of the RAiDER tutorial  *)
(* notebooks (src/unnamed/part_000, lines 109-217; the same cell is        *)
(* repeated at lines 1157-1265).                                           *)
(*                                                                         *)
(* One call of plot_layer is a run of the program counter pc through the   *)
(* statements of the function; the calls follow one another, and the       *)
(* library's shared colormap objects live across calls.                    *)
(*                                                                         *)
(* load_weather of the custom weather model reader template (lines         *)
(* 753-872) is a second state machine, ReaderSpec, over the variable       *)
(* reader: it runs the statements of the method one at a time.             *)
(*                                                                         *)
(* Strings are sequences of one-character strings, so that endswith,       *)
(* startswith, os.path.dirname and os.path.basename are computed and not   *)
(* assumed.  Pixel values are integers in units of 1e19 (BigValue is       *)
(* 1e20), plus the IEEE value NaN.                                         *)
(***************************************************************************)
EXTENDS Integers, Sequences, FiniteSets, TLC

-----------------------------------------------------------------------------
(* Bounds of the model *)

MaxRasterCount == 4     \* the rasters have 0..MaxRasterCount bands
MaxNBandsArg == 4       \* the n_bands overrides are -1..MaxNBandsArg
MaxSize == 2            \* the rasters of varied geometry are 1..MaxSize pixels a side
MaxCalls == 2           \* the caller makes up to MaxCalls calls of plot_layer, one after another
MaxCube == 2            \* the data cubes a weather file holds are 1..MaxCube

-----------------------------------------------------------------------------
(* Python values *)

\* A value that may be a number, None, NaN, a raised exception or not yet
\* bound is a record, so that any two of them can be compared.
Num(n) == [k |-> "num", v |-> n]
None == [k |-> "None", v |-> 0]
NaN == [k |-> "nan", v |-> 0]
Raises == [k |-> "raises", v |-> 0]     \* a no-data lookup that raises
Unbound == [k |-> "unbound", v |-> 0]   \* a local before its first assignment

\* An optional string argument: None, or the string s
NoStr == [given |-> FALSE, s |-> << >>]
Str(s) == [given |-> TRUE, s |-> s]

\* 1e20, in the unit of the pixel values (1e19)
BigValue == 10
\* the fixed upper colour bound of the amplitude rule
AmplitudeVmax == 2000

-----------------------------------------------------------------------------
(* Strings *)

s_amplitude == <<"a","m","p","l","i","t","u","d","e">>
s_coherence == <<"c","o","h","e","r","e","n","c","e">>
s_incidenceAngle == <<"i","n","c","i","d","e","n","c","e","A","n","g","l","e">>
s_water == <<"w","a","t","e","r">>
s_defo == <<"d","e","f","o">>
s_terr == <<"t","e","r","r">>
s_topo == <<"t","o","p","o">>
s_ENU == <<"E","N","U">>
s_East == <<"E","a","s","t">>
s_North == <<"N","o","r","t","h">>
s_Up == <<"U","p">>
s_empty == << >>
s_slash == <<"/">>
s_d == <<"d">>
s_f == <<"f">>
s_Mask == <<"M","a","s","k">>
s_x == <<"x">>
s_Height == <<"H","e","i","g","h","t">>

\* str.endswith
EndsWith(s, suffix) ==
    /\ Len(s) >= Len(suffix)
    /\ SubSeq(s, Len(s) - Len(suffix) + 1, Len(s)) = suffix

\* str.startswith
StartsWith(s, prefix) ==
    /\ Len(s) >= Len(prefix)
    /\ SubSeq(s, 1, Len(prefix)) = prefix

\* str.rfind('/') + 1: the position after the last slash, 0 when there is none
AfterLastSlash(p) ==
    LET at == {k \in 1..Len(p) : p[k] = "/"}
    IN  IF at = {} THEN 0 ELSE CHOOSE k \in at : \A j \in at : j <= k

\* str.rstrip('/')
RECURSIVE RStripSlash(_)
RStripSlash(s) ==
    IF Len(s) > 0 /\ s[Len(s)] = "/"
    THEN RStripSlash(SubSeq(s, 1, Len(s) - 1))
    ELSE s

\* os.path.dirname (posixpath)
Dirname(p) ==
    LET head == SubSeq(p, 1, AfterLastSlash(p))
    IN  IF head # << >> /\ (\E k \in 1..Len(head) : head[k] # "/")
        THEN RStripSlash(head)
        ELSE head

\* os.path.basename (posixpath)
Basename(p) == SubSeq(p, AfterLastSlash(p) + 1, Len(p))


-----------------------------------------------------------------------------
(* The statements of plot_layer that compute a value *)

\* "if not lay_type: lay_type = os.path.dirname(path_layer)"
\* (None and the empty string are both false)
LayTypeOf(path_layer, lay_type_arg) ==
    IF ~lay_type_arg.given \/ lay_type_arg.s = s_empty
    THEN Dirname(path_layer)
    ELSE lay_type_arg.s

\* "title = [os.path.basename(lay_type)]"
TitleOf(lt) == <<Basename(lt)>>

\* The extent with bottom and top in the order of the rows (top first)
ExtentOf_TopFirst(trans, XSize, YSize) ==
    << trans[1], trans[1] + XSize * trans[2], trans[4], trans[4] + YSize * trans[6] >>

\* The extent with the rows counted upwards from the origin
ExtentOf_BottomUp(trans, XSize, YSize) ==
    << trans[1], trans[1] + XSize * trans[2], trans[4] - YSize * trans[6], trans[4] >>

\* "extent = [trans[0], trans[0] + ds.RasterXSize * trans[1],
\*            trans[3] + ds.RasterYSize*trans[5], trans[3]]"
\* trans is GDAL's six-tuple (x0, dx, rot, y0, rot, dy)
ExtentOf(trans, XSize, YSize) ==
    << trans[1], trans[1] + XSize * trans[2], trans[4] + YSize * trans[6], trans[4] >>

\* "if n_bands is None: n_bands = ds.RasterCount": an override of 0 is kept
ResolveNBands_NoneOnly(n_bands_arg, RasterCount) ==
    IF n_bands_arg = None THEN RasterCount ELSE n_bands_arg.v

\* "if not n_bands: n_bands = ds.RasterCount" (None and 0 are both false)
ResolveNBands(n_bands_arg, RasterCount) ==
    IF n_bands_arg = None \/ n_bands_arg = Num(0) THEN RasterCount ELSE n_bands_arg.v

\* The threshold test on the magnitude of the value
GreaterThanBig_Magnitude(x) == x.k = "num" /\ (x.v > BigValue \/ x.v < 0 - BigValue)

\* The threshold test with >= for >
GreaterThanBig_OrEqual(x) == x.k = "num" /\ x.v >= BigValue

\* arr > 1e20, element by element (IEEE: NaN compares false)
GreaterThanBig(x) == x.k = "num" /\ x.v > BigValue

\* arr == NoData, element by element (IEEE: NaN equals nothing; a number
\* compared with None is False)
EqualsNoData(x, NoData) == x.k = "num" /\ NoData.k = "num" /\ x.v = NoData.v

\* "(arr>1e20) |(arr==NoData)", the condition of the try branch
TryMask(x, NoData) == GreaterThanBig(x) \/ EqualsNoData(x, NoData)

\* "arr>1e20", the condition of the except branch
ExceptMask(x) == GreaterThanBig(x)

\* whether "NoData = raster.GetNoDataValue()" raises for the band
LookupRaises(band) == band.nodata = Raises

\* The try/except of the band loop: the masked array appended to lst_arrs.
\* band is the raster band [data, nodata]; data is a sequence of rows.
MaskedBand(band) ==
    [ data |-> band.data,
      mask |-> [r \in DOMAIN band.data |->
                  [c \in DOMAIN band.data[r] |->
                      IF LookupRaises(band)
                      THEN ExceptMask(band.data[r][c])
                      ELSE TryMask(band.data[r][c], band.nodata)]] ]

\* A layout check that is off by one: four bands pass
LayoutSupported_UpToFour(n) == n <= 4

\* "if n_bands < 4" : the layout rule exists
LayoutSupported(n) == n < 4

\* The branches of the if/elif chain on lay_type: vmin, vmax, cmap, title and
\* the figure's wspace after the branch, from cmap and title before it.
AmplitudeStyle(cmap0, title0) ==
    [vmin |-> None, vmax |-> Num(AmplitudeVmax), cmap |-> cmap0,
     title |-> title0, wspace |-> "default"]

\* A coherence branch that lets the data drive the upper bound
CoherenceStyle_DataDriven(cmap0, title0) ==
    [vmin |-> Num(0), vmax |-> None, cmap |-> cmap0,
     title |-> title0, wspace |-> "default"]

CoherenceStyle(cmap0, title0) ==
    [vmin |-> Num(0), vmax |-> Num(1), cmap |-> cmap0,
     title |-> title0, wspace |-> "default"]

IncidenceAngleStyle(cmap0, title0) ==
    [vmin |-> None, vmax |-> None, cmap |-> cmap0,
     title |-> title0, wspace |-> "default"]

WaterStyle(cmap0, title0) ==
    [vmin |-> Num(0), vmax |-> Num(1), cmap |-> "Greys",
     title |-> title0, wspace |-> "default"]

DefoStyle(cmap0, title0) ==
    [vmin |-> None, vmax |-> None, cmap |-> "coolwarm",
     title |-> title0, wspace |-> "default"]

TerrainStyle(cmap0, title0) ==
    [vmin |-> None, vmax |-> None, cmap |-> "terrain",
     title |-> title0, wspace |-> "default"]

\* The ENU titles with the first two swapped
ENUTitle_NorthFirst == <<s_North, s_East, s_Up>>

\* "title = ['East', 'North', 'Up']"
ENUTitle == <<s_East, s_North, s_Up>>

ENUStyle(cmap0, title0) ==
    [vmin |-> None, vmax |-> None, cmap |-> cmap0,
     title |-> ENUTitle, wspace |-> "0.5"]

DefaultStyle(cmap0, title0) ==
    [vmin |-> None, vmax |-> None, cmap |-> "coolwarm",
     title |-> title0, wspace |-> "default"]

\* The chain with the water branch tested before the three endswith branches
StyleOf_WaterFirst(lt, cmap0, title0) ==
    IF StartsWith(lt, s_water) THEN WaterStyle(cmap0, title0)
    ELSE IF EndsWith(lt, s_amplitude) THEN AmplitudeStyle(cmap0, title0)
    ELSE IF EndsWith(lt, s_coherence) THEN CoherenceStyle(cmap0, title0)
    ELSE IF EndsWith(lt, s_incidenceAngle) THEN IncidenceAngleStyle(cmap0, title0)
    ELSE IF StartsWith(lt, s_defo) THEN DefoStyle(cmap0, title0)
    ELSE IF StartsWith(lt, s_terr) \/ StartsWith(lt, s_topo) THEN TerrainStyle(cmap0, title0)
    ELSE IF lt = s_ENU THEN ENUStyle(cmap0, title0)
    ELSE DefaultStyle(cmap0, title0)

\* The if/elif chain on lay_type
StyleOf(lt, cmap0, title0) ==
    IF EndsWith(lt, s_amplitude) THEN AmplitudeStyle(cmap0, title0)
    ELSE IF EndsWith(lt, s_coherence) THEN CoherenceStyle(cmap0, title0)
    ELSE IF EndsWith(lt, s_incidenceAngle) THEN IncidenceAngleStyle(cmap0, title0)
    ELSE IF StartsWith(lt, s_water) THEN WaterStyle(cmap0, title0)
    ELSE IF StartsWith(lt, s_defo) THEN DefoStyle(cmap0, title0)
    ELSE IF StartsWith(lt, s_terr) \/ StartsWith(lt, s_topo) THEN TerrainStyle(cmap0, title0)
    ELSE IF lt = s_ENU THEN ENUStyle(cmap0, title0)
    ELSE DefaultStyle(cmap0, title0)

\* The if/elif chain of the plotting loop: the options of fig.colorbar
\* (ticks is << >> when the option is not passed)
ColorbarOf(lt, vmin0, vmax0) ==
    IF lt = s_ENU THEN [format |-> "{:.3f}", ticks |-> << >>]
    ELSE IF StartsWith(lt, s_water) THEN [format |-> "default", ticks |-> <<vmin0, vmax0>>]
    ELSE [format |-> "default", ticks |-> << >>]

\* The x-axis label on the last subplot
XLabelAxis_Last(n) == n

\* "int(np.floor(n_bands/2))", as a 1-based position in axe
XLabelAxis(n) == (n \div 2) + 1

-----------------------------------------------------------------------------
(* The inputs of a call: the arguments and the file at path_layer *)

\* the file at path_layer: a raster, or nothing that gdal.Open can open
NoFile ==
    [exists |-> FALSE, RasterCount |-> 0, RasterXSize |-> 0, RasterYSize |-> 0,
     trans |-> <<0, 0, 0, 0, 0, 0>>, bands |-> << >>]

Raster(XSize, YSize, trans, bands) ==
    [exists |-> TRUE, RasterCount |-> Len(bands), RasterXSize |-> XSize,
     RasterYSize |-> YSize, trans |-> trans, bands |-> bands]

NorthUp == <<0, 1, 0, 0, 0, 0 - 1>>

\* a one-pixel band that holds its own band number and declares no sentinel
PlainBand(b) == [data |-> << <<Num(b)>> >>, nodata |-> None]
PlainRaster(count) == Raster(1, 1, NorthUp, [b \in 1..count |-> PlainBand(b)])

\* Labels given by the caller: one for every rule of the chain, the ones that
\* match two rules, one that matches none, and the empty string.
LayTypes ==
    { s_amplitude, s_coherence, s_incidenceAngle,
      s_water \o s_Mask, s_water \o s_amplitude, s_water \o s_coherence,
      s_water \o s_incidenceAngle,
      s_defo, s_terr, s_topo, s_ENU, s_ENU \o s_x, s_x, s_empty }

\* Paths of rasters plotted without a label: the label is the directory
Paths ==
    { s_f,
      s_water \o s_Mask \o s_slash \o s_f,
      s_slash \o s_d \o s_slash \o s_water \o s_Mask \o s_slash \o s_f,
      s_ENU \o s_slash \o s_f,
      s_d \o s_slash \o s_ENU \o s_slash \o s_f,
      s_d \o s_slash \o s_coherence \o s_slash \o s_f,
      s_d \o s_slash \o s_topo \o s_slash \o s_f }

PlainPath == s_d \o s_slash \o s_f

NBandsArgs == {None} \cup {Num(n) : n \in (0 - 1)..MaxNBandsArg}

\* Calls that exercise the label, the band count, the cmap argument and an
\* extra keyword argument, on
\* plain rasters of every band count and on a path that cannot be opened
DispatchInputs ==
    { [path_layer |-> lp[2], lay_type |-> lp[1], cmap |-> c, n_bands |-> n,
       kwargs |-> kw, file |-> f] :
        lp \in ({Str(l) : l \in LayTypes} \X {PlainPath}) \cup ({NoStr} \X Paths),
        c \in {"None", "jet"},
        kw \in {{}, {"vmax"}},
        n \in NBandsArgs,
        f \in {NoFile} \cup {PlainRaster(count) : count \in 0..MaxRasterCount} }

\* Pixel values around the 1e20 threshold, on both sides of zero, and NaN
PixelValues ==
    { Num(0 - (BigValue + 1)), Num(0), Num(1), Num(BigValue), Num(BigValue + 1), NaN }

\* What the no-data lookup of a band gives: None, an exception, or a sentinel
NoDataValues == { None, Raises, Num(0), Num(0 - (BigValue + 1)), NaN }

OnePixelBands == { [data |-> << <<x>> >>, nodata |-> nd] : x \in PixelValues, nd \in NoDataValues }
TwoPixelBands ==
    { [data |-> << <<x, y>> >>, nodata |-> nd] :
        x \in PixelValues, y \in PixelValues, nd \in NoDataValues }

DataRasters ==
    {Raster(1, 1, NorthUp, <<b1>>) : b1 \in OnePixelBands}
    \cup {Raster(1, 1, NorthUp, <<b1, b2>>) : b1 \in OnePixelBands, b2 \in OnePixelBands}
    \cup {Raster(2, 1, NorthUp, <<b1>>) : b1 \in TwoPixelBands}

\* Calls that exercise the pixel values and the no-data lookup
DataInputs ==
    { [path_layer |-> PlainPath, lay_type |-> Str(l), cmap |-> "None",
       n_bands |-> None, kwargs |-> {}, file |-> f] : l \in {s_ENU, s_coherence}, f \in DataRasters }

\* Geotransforms (x0, dx, 0, y0, 0, dy), coordinates in units of 0.01 degree:
\* origins on both sides of zero, two pixel sizes, north-up and south-up rows
GeoTransforms ==
    { <<x0, dx, 0, y0, 0, dy>> :
        x0 \in {0 - 3, 0}, dx \in {1, 2}, y0 \in {0, 5}, dy \in {0 - 2, 0 - 1, 1} }

\* a band of YSize rows of XSize pixels that all hold x
FilledBand(XSize, YSize, x) ==
    [data |-> [r \in 1..YSize |-> [c \in 1..XSize |-> x]], nodata |-> None]

GeoRasters ==
    { Raster(w, h, t, [b \in 1..count |-> FilledBand(w, h, x)]) :
        w \in 1..MaxSize, h \in 1..MaxSize, t \in GeoTransforms,
        count \in 1..2, x \in {Num(0), Num(BigValue + 1)} }

\* the raster of 100 x 100 pixels of 0.01 degree with its origin at
\* (-120.0, 35.0)
ExampleRaster ==
    Raster(100, 100, <<0 - 12000, 1, 0, 3500, 0, 0 - 1>>, <<FilledBand(100, 100, Num(0))>>)

\* Calls that exercise the geotransform and the size of the raster
GeoInputs ==
    { [path_layer |-> PlainPath, lay_type |-> Str(l), cmap |-> "None",
       n_bands |-> None, kwargs |-> {}, file |-> f] :
        l \in {s_ENU, s_topo \o s_Height}, f \in GeoRasters \cup {ExampleRaster} }

CallInputs == DispatchInputs \cup DataInputs \cup GeoInputs

-----------------------------------------------------------------------------
(* The state *)

VARIABLES
    pc,         \* where the call is: "idle", a statement of plot_layer, "returned" or "raised"
    error,      \* the exception that ended the call, "none" otherwise
    args,       \* the arguments of the call, as the caller gave them
    file,       \* what is stored at path_layer
    lay_type,   \* the locals of plot_layer ...
    title,
    ds,         \* "unbound", "Dataset" (the open handle) or "None" (released)
    extent,
    n_bands,
    lst_arrs,
    nrows,
    ncols,
    fig,
    axe,
    cmap,
    vmin,
    vmax,
    i,          \* the number of completed iterations of the plotting loop
    notes,      \* the bands for which the diagnostic note was printed
    colormaps,  \* the library's shared colormaps: the "under" colour of each
    calls,      \* the number of calls of plot_layer the caller has made
    reader      \* the customModelReader object and the frame of its load_weather

vars == << pc, error, args, file, lay_type, title, ds, extent, n_bands, lst_arrs,
           nrows, ncols, fig, axe, cmap, vmin, vmax, i, notes, colormaps,
           calls, reader >>

NoFig == [exists |-> FALSE, nrows |-> 0, ncols |-> 0, wspace |-> "default"]

\* an axes of a new figure: no image, colorbar or title; default grid; no labels
NewAxes ==
    [image |-> << >>, colorbar |-> << >>, title |-> << >>, grid |-> "default",
     xlabel |-> "", ylabel |-> ""]

NoArgs ==
    [path_layer |-> s_empty, lay_type |-> NoStr, cmap |-> "None", n_bands |-> None,
     kwargs |-> {}]

\* the local variables of load_weather
LocalNames == {"lats", "lons", "xs", "ys", "t", "q", "p", "hgt", "z"}

\* the attributes load_weather is there to assign
AttrNames == {"_lats", "_lons", "_xs", "_ys", "_zs", "_p", "_t", "_q", "_rh"}

\* a customModelReader after __init__, load_weather not yet called: no local
\* is bound and load_weather has assigned no attribute
NoReader ==
    [pc |-> "idle", stmt |-> 0, error |-> "none", humidityType |-> "q",
     cubes |-> None,
     locals |-> [n \in LocalNames |-> Unbound],
     attrs |-> [a \in AttrNames |-> Unbound]]

Init ==
    /\ pc = "idle"
    /\ error = "none"
    /\ args = NoArgs
    /\ file = NoFile
    /\ lay_type = s_empty
    /\ title = << >>
    /\ ds = "unbound"
    /\ extent = << >>
    /\ n_bands = Unbound
    /\ lst_arrs = << >>
    /\ nrows = 0
    /\ ncols = 0
    /\ fig = NoFig
    /\ axe = << >>
    /\ cmap = "unbound"
    /\ vmin = Unbound
    /\ vmax = Unbound
    /\ i = 0
    /\ notes = {}
    /\ colormaps = [c \in {"Greys_r", "Greys", "coolwarm", "terrain", "jet"} |-> "default"]
    /\ calls = 0
    /\ reader = NoReader

-----------------------------------------------------------------------------
(* The steps of a call *)

\* The caller calls plot_layer: the parameters are bound and the label and
\* the title are computed.
Call ==
    /\ pc = "idle"
    /\ calls < MaxCalls
    /\ calls' = calls + 1
    /\ \E in \in CallInputs :
        /\ args' = [path_layer |-> in.path_layer, lay_type |-> in.lay_type,
                    cmap |-> in.cmap, n_bands |-> in.n_bands, kwargs |-> in.kwargs]
        /\ file' = in.file
        /\ lay_type' = LayTypeOf(in.path_layer, in.lay_type)
        /\ title' = TitleOf(LayTypeOf(in.path_layer, in.lay_type))
        /\ n_bands' = in.n_bands
        /\ cmap' = in.cmap
    /\ pc' = "open"
    /\ UNCHANGED << error, ds, extent, lst_arrs, nrows, ncols, fig, axe, vmin, vmax,
                    i, notes, colormaps, reader >>

\* An open that hands back an empty handle for a path that cannot be opened
\* and goes on with it, as gdal.Open does without gdal.UseExceptions()
Open_Unchecked ==
    /\ pc = "open"
    /\ ds' = IF file.exists THEN "Dataset" ELSE "None"
    /\ extent' = ExtentOf(file.trans, file.RasterXSize, file.RasterYSize)
    /\ pc' = "load"
    /\ UNCHANGED << error, args, file, lay_type, title, n_bands, lst_arrs, nrows, ncols,
                    fig, axe, cmap, vmin, vmax, i, notes, colormaps,
                    calls, reader >>

\* gdal.Open, GetGeoTransform and the extent.  gdal.UseExceptions() is in
\* force: a path that cannot be opened raises and ds is never bound.
Open ==
    /\ pc = "open"
    /\ IF file.exists
       THEN /\ ds' = "Dataset"
            /\ extent' = ExtentOf(file.trans, file.RasterXSize, file.RasterYSize)
            /\ pc' = "load"
            /\ UNCHANGED error
       ELSE /\ pc' = "raised"
            /\ error' = "OpenError"
            /\ UNCHANGED << ds, extent >>
    /\ UNCHANGED << args, file, lay_type, title, n_bands, lst_arrs, nrows, ncols,
                    fig, axe, cmap, vmin, vmax, i, notes, colormaps,
                    calls, reader >>

\* "if not n_bands: n_bands = ds.RasterCount" and "lst_arrs = []"
Load ==
    /\ pc = "load"
    /\ n_bands' = Num(ResolveNBands(n_bands, file.RasterCount))
    /\ lst_arrs' = << >>
    /\ pc' = "read"
    /\ UNCHANGED << error, args, file, lay_type, title, ds, extent, nrows, ncols,
                    fig, axe, cmap, vmin, vmax, i, notes, colormaps,
                    calls, reader >>

\* One iteration of "for band in range(n_bands)": band is Len(lst_arrs).
\* ds.GetRasterBand(band+1) raises for a band the raster does not have.
ReadBand ==
    /\ pc = "read"
    /\ Len(lst_arrs) < n_bands.v
    /\ LET band == Len(lst_arrs)
       IN  IF band + 1 \in 1..file.RasterCount
           THEN /\ lst_arrs' = Append(lst_arrs, MaskedBand(file.bands[band + 1]))
                /\ notes' = IF LookupRaises(file.bands[band + 1])
                            THEN notes \cup {band + 1} ELSE notes
                /\ UNCHANGED << pc, error >>
           ELSE /\ pc' = "raised"
                /\ error' = "BandError"
                /\ UNCHANGED << lst_arrs, notes >>
    /\ UNCHANGED << args, file, lay_type, title, ds, extent, n_bands, nrows, ncols,
                    fig, axe, cmap, vmin, vmax, i, colormaps,
                    calls, reader >>

\* The end of the loop without "ds = None": the handle stays open
Release_KeepHandle ==
    /\ pc = "read"
    /\ Len(lst_arrs) >= n_bands.v
    /\ pc' = "layout"
    /\ UNCHANGED << error, args, file, lay_type, title, ds, extent, n_bands, lst_arrs,
                    nrows, ncols, fig, axe, cmap, vmin, vmax, i, notes, colormaps,
                    calls, reader >>

\* "ds = None", once the loop has run range(n_bands) out
Release ==
    /\ pc = "read"
    /\ Len(lst_arrs) >= n_bands.v
    /\ ds' = "None"
    /\ pc' = "layout"
    /\ UNCHANGED << error, args, file, lay_type, title, extent, n_bands, lst_arrs,
                    nrows, ncols, fig, axe, cmap, vmin, vmax, i, notes, colormaps,
                    calls, reader >>

\* "if n_bands < 4: nrows = 1; ncols = n_bands / else: raise Exception(...)"
Layout ==
    /\ pc = "layout"
    /\ IF LayoutSupported(n_bands.v)
       THEN /\ nrows' = 1
            /\ ncols' = n_bands.v
            /\ pc' = "figure"
            /\ UNCHANGED error
       ELSE /\ pc' = "raised"
            /\ error' = "Unsupported"
            /\ UNCHANGED << nrows, ncols >>
    /\ UNCHANGED << args, file, lay_type, title, ds, extent, n_bands, lst_arrs,
                    fig, axe, cmap, vmin, vmax, i, notes, colormaps,
                    calls, reader >>

\* The figure step with the below-minimum colour set for 'ENU' layers only
Figure_UnderForENUOnly ==
    /\ pc = "figure"
    /\ fig' = [exists |-> TRUE, nrows |-> nrows, ncols |-> ncols, wspace |-> "default"]
    /\ IF ncols >= 1
       THEN /\ axe' = [a \in 1..(nrows * ncols) |-> NewAxes]
            /\ cmap' = "Greys_r"
            /\ colormaps' = IF lay_type = s_ENU
                            THEN [colormaps EXCEPT !["Greys_r"] = "black"]
                            ELSE colormaps
            /\ pc' = "style"
            /\ UNCHANGED error
       ELSE /\ pc' = "raised"
            /\ error' = "ValueError"
            /\ UNCHANGED << axe, cmap, colormaps >>
    /\ UNCHANGED << args, file, lay_type, title, ds, extent, n_bands, lst_arrs,
                    nrows, ncols, vmin, vmax, i, notes,
                    calls, reader >>

\* The figure step with the colormap left as the caller passed it
Figure_CallerCmap ==
    /\ pc = "figure"
    /\ fig' = [exists |-> TRUE, nrows |-> nrows, ncols |-> ncols, wspace |-> "default"]
    /\ IF ncols >= 1
       THEN /\ axe' = [a \in 1..(nrows * ncols) |-> NewAxes]
            /\ cmap' = IF cmap = "None" THEN "Greys_r" ELSE cmap
            /\ colormaps' = [colormaps EXCEPT ![cmap'] = "black"]
            /\ pc' = "style"
            /\ UNCHANGED error
       ELSE /\ pc' = "raised"
            /\ error' = "ValueError"
            /\ UNCHANGED << axe, cmap, colormaps >>
    /\ UNCHANGED << args, file, lay_type, title, ds, extent, n_bands, lst_arrs,
                    nrows, ncols, vmin, vmax, i, notes,
                    calls, reader >>

\* "fig, axes = plt.subplots(...)", the ravel, "cmap = plt.cm.Greys_r" and
\* "cmap.set_under('black')".  plt.subplots makes the figure first and then
\* its grid of axes, which raises ValueError unless ncols is positive.
Figure ==
    /\ pc = "figure"
    /\ fig' = [exists |-> TRUE, nrows |-> nrows, ncols |-> ncols, wspace |-> "default"]
    /\ IF ncols >= 1
       THEN /\ axe' = [a \in 1..(nrows * ncols) |-> NewAxes]
            /\ cmap' = "Greys_r"
            /\ colormaps' = [colormaps EXCEPT !["Greys_r"] = "black"]
            /\ pc' = "style"
            /\ UNCHANGED error
       ELSE /\ pc' = "raised"
            /\ error' = "ValueError"
            /\ UNCHANGED << axe, cmap, colormaps >>
    /\ UNCHANGED << args, file, lay_type, title, ds, extent, n_bands, lst_arrs,
                    nrows, ncols, vmin, vmax, i, notes,
                    calls, reader >>

\* The if/elif chain on lay_type
Style ==
    /\ pc = "style"
    /\ LET st == StyleOf(lay_type, cmap, title)
       IN  /\ vmin' = st.vmin
           /\ vmax' = st.vmax
           /\ cmap' = st.cmap
           /\ title' = st.title
           /\ fig' = [fig EXCEPT !.wspace = st.wspace]
    /\ pc' = "plot"
    /\ UNCHANGED << error, args, file, lay_type, ds, extent, n_bands, lst_arrs,
                    nrows, ncols, axe, i, notes, colormaps,
                    calls, reader >>

\* A plotting loop that unmasks the pixels of a coherence layer before imshow
PlotBand_CoherenceUnmasked ==
    /\ pc = "plot"
    /\ i < Len(axe)
    /\ LET arr == IF EndsWith(lay_type, s_coherence)
                  THEN [lst_arrs[i + 1] EXCEPT !.mask =
                           [r \in DOMAIN @ |-> [c \in DOMAIN @[r] |-> FALSE]]]
                  ELSE lst_arrs[i + 1]
           shown == [axe[i + 1] EXCEPT
                       !.image = << [arr |-> arr, cmap |-> cmap,
                                     under |-> colormaps[cmap], vmin |-> vmin,
                                     vmax |-> vmax, extent |-> extent] >>,
                       !.colorbar = << ColorbarOf(lay_type, vmin, vmax) >>]
       IN  IF i + 1 \in 1..Len(title)
           THEN /\ axe' = [axe EXCEPT ![i + 1] =
                              [shown EXCEPT !.title = << title[i + 1] >>, !.grid = "off"]]
                /\ i' = i + 1
                /\ UNCHANGED << pc, error >>
           ELSE /\ axe' = [axe EXCEPT ![i + 1] = shown]
                /\ pc' = "raised"
                /\ error' = "IndexError"
                /\ UNCHANGED i
    /\ UNCHANGED << args, file, lay_type, title, ds, extent, n_bands, lst_arrs,
                    nrows, ncols, fig, cmap, vmin, vmax, notes, colormaps,
                    calls, reader >>

\* One iteration of "for i, ax in enumerate(axe)": imshow, the colorbar,
\* then set_title(title[i]), which raises IndexError when title is too short,
\* then grid(False).
PlotBand ==
    /\ pc = "plot"
    /\ i < Len(axe)
    /\ LET shown == [axe[i + 1] EXCEPT
                       !.image = << [arr |-> lst_arrs[i + 1], cmap |-> cmap,
                                     under |-> colormaps[cmap], vmin |-> vmin,
                                     vmax |-> vmax, extent |-> extent] >>,
                       !.colorbar = << ColorbarOf(lay_type, vmin, vmax) >>]
       IN  IF i + 1 \in 1..Len(title)
           THEN /\ axe' = [axe EXCEPT ![i + 1] =
                              [shown EXCEPT !.title = << title[i + 1] >>, !.grid = "off"]]
                /\ i' = i + 1
                /\ UNCHANGED << pc, error >>
           ELSE /\ axe' = [axe EXCEPT ![i + 1] = shown]
                /\ pc' = "raised"
                /\ error' = "IndexError"
                /\ UNCHANGED i
    /\ UNCHANGED << args, file, lay_type, title, ds, extent, n_bands, lst_arrs,
                    nrows, ncols, fig, cmap, vmin, vmax, notes, colormaps,
                    calls, reader >>

\* "axe[0].set_ylabel('latitude', ...)" and
\* "axe[int(np.floor(n_bands/2))].set_xlabel('longitude', ...)", then the return
Labels ==
    /\ pc = "plot"
    /\ i >= Len(axe)
    /\ LET ylabelled == [axe EXCEPT ![1].ylabel = "latitude"]
       IN  IF XLabelAxis(n_bands.v) \in 1..Len(axe)
           THEN /\ axe' = [ylabelled EXCEPT ![XLabelAxis(n_bands.v)].xlabel = "longitude"]
                /\ pc' = "returned"
                /\ UNCHANGED error
           ELSE /\ axe' = ylabelled
                /\ pc' = "raised"
                /\ error' = "IndexError"
    /\ UNCHANGED << args, file, lay_type, title, ds, extent, n_bands, lst_arrs,
                    nrows, ncols, fig, cmap, vmin, vmax, i, notes, colormaps,
                    calls, reader >>

\* The caller is back in control (the call returned or raised) and the frame
\* of the call is gone; the shared colormaps stay as the call left them.
Return ==
    /\ pc \in {"returned", "raised"}
    /\ pc' = "idle"
    /\ error' = "none"
    /\ args' = NoArgs
    /\ file' = NoFile
    /\ lay_type' = s_empty
    /\ title' = << >>
    /\ ds' = "unbound"
    /\ extent' = << >>
    /\ n_bands' = Unbound
    /\ lst_arrs' = << >>
    /\ nrows' = 0
    /\ ncols' = 0
    /\ fig' = NoFig
    /\ axe' = << >>
    /\ cmap' = "unbound"
    /\ vmin' = Unbound
    /\ vmax' = Unbound
    /\ i' = 0
    /\ notes' = {}
    /\ UNCHANGED << colormaps, calls, reader >>

Next ==
    \/ Call
    \/ Open
    \/ Load
    \/ ReadBand
    \/ Release
    \/ Layout
    \/ Figure
    \/ Style
    \/ PlotBand
    \/ Labels
    \/ Return

Spec == Init /\ [][Next]_vars

-----------------------------------------------------------------------------
(* load_weather of the custom reader template *)

\* What _makeDataCubes returns: None as the template leaves it ("pass"), or
\* the eight cubes lats, lons, xs, ys, t, q, p, hgt once the user wrote it.
CubeTuples == [1..8 -> {Num(c) : c \in 1..MaxCube}]

\* a cube computed by a method of the base class or by arithmetic
Derived == Num(0)

\* The statements of load_weather in order: the locals each reads, the
\* locals it binds, the attribute it assigns and the local the value comes
\* from ("" : a computed cube).
LoadWeatherBody ==
    << [unpack |-> TRUE,  reads |-> {}, binds |-> <<"lats", "lons", "xs", "ys", "t", "q", "p", "hgt">>,
        attr |-> "", from |-> ""],
       [unpack |-> FALSE, reads |-> {"z", "p"}, binds |-> <<"z", "p", "hgt">>, attr |-> "", from |-> ""],
       [unpack |-> FALSE, reads |-> {"z"}, binds |-> <<"hgt">>, attr |-> "", from |-> ""],
       [unpack |-> FALSE, reads |-> {"lats", "hgt"}, binds |-> << >>, attr |-> "_zs", from |-> ""],
       [unpack |-> FALSE, reads |-> {"hgt"}, binds |-> << >>, attr |-> "_zs", from |-> "hgt"],
       [unpack |-> FALSE, reads |-> {"t"}, binds |-> << >>, attr |-> "_t", from |-> "t"],
       [unpack |-> FALSE, reads |-> {"q"}, binds |-> << >>, attr |-> "_q", from |-> "q"],
       [unpack |-> FALSE, reads |-> {"p"}, binds |-> << >>, attr |-> "_p", from |-> "p"],
       [unpack |-> FALSE, reads |-> {"xs"}, binds |-> << >>, attr |-> "_xs", from |-> "xs"],
       [unpack |-> FALSE, reads |-> {"ys"}, binds |-> << >>, attr |-> "_ys", from |-> "ys"],
       [unpack |-> FALSE, reads |-> {"lats"}, binds |-> << >>, attr |-> "_lats", from |-> "lats"],
       [unpack |-> FALSE, reads |-> {"lons"}, binds |-> << >>, attr |-> "_lons", from |-> "lons"] >>

\* the plotting state, which the reader does not touch
plotting == << pc, error, args, file, lay_type, title, ds, extent, n_bands, lst_arrs,
               nrows, ncols, fig, axe, cmap, vmin, vmax, i, notes, colormaps, calls >>

\* load_weather(filename) is called on a new reader
LoadWeather ==
    /\ reader.pc = "idle"
    /\ \E cubes \in {None} \cup CubeTuples :
          reader' = [reader EXCEPT !.pc = "run", !.stmt = 1, !.cubes = cubes]
    /\ UNCHANGED plotting

\* One statement of load_weather.  Unpacking None raises TypeError; reading
\* a local that is not bound raises UnboundLocalError; after the last
\* statement the method returns.
LoadWeatherStep ==
    /\ reader.pc = "run"
    /\ LET st == LoadWeatherBody[reader.stmt]
           value == IF st.from = "" THEN Derived ELSE reader.locals[st.from]
           done == IF reader.stmt = Len(LoadWeatherBody) THEN "returned" ELSE "run"
       IN  IF st.unpack /\ reader.cubes = None
           THEN reader' = [reader EXCEPT !.pc = "raised", !.error = "TypeError"]
           ELSE IF \E n \in st.reads : reader.locals[n] = Unbound
           THEN reader' = [reader EXCEPT !.pc = "raised", !.error = "UnboundLocalError"]
           ELSE reader' =
                  [reader EXCEPT
                     !.pc = done,
                     !.stmt = @ + 1,
                     !.locals = [n \in LocalNames |->
                                   IF \E k \in 1..Len(st.binds) : st.binds[k] = n
                                   THEN IF st.unpack
                                        THEN reader.cubes[CHOOSE k \in 1..Len(st.binds) : st.binds[k] = n]
                                        ELSE Derived
                                   ELSE reader.locals[n]],
                     !.attrs = [a \in AttrNames |->
                                   IF a = st.attr THEN value ELSE reader.attrs[a]]]
    /\ UNCHANGED plotting

ReaderNext ==
    \/ LoadWeather
    \/ LoadWeatherStep

ReaderSpec == Init /\ [][ReaderNext]_vars

-----------------------------------------------------------------------------
(* Vocabulary of the properties *)

\* the call has ended and the caller has not yet taken over
Ended == pc \in {"returned", "raised"}

\* a call is under way or has just ended
InCall == pc # "idle"

\* the band count as the caller asked for it: the n_bands override if given,
\* otherwise the band count of the raster
RequestedBands == IF args.n_bands = None THEN file.RasterCount ELSE args.n_bands.v

\* the raster can be opened and has every band the call asks for
Readable == file.exists /\ RequestedBands <= file.RasterCount

\* the subplots that hold a rendered band
Rendered == {a \in 1..Len(axe) : axe[a].image # << >>}

\* the subplots that have a colorbar
WithColorbar == {a \in 1..Len(axe) : axe[a].colorbar # << >>}

-----------------------------------------------------------------------------
(* Properties *)

\* C1: every call whose band count is 1, 2 or 3 (on a raster that has these
\* bands), whatever the layer type, completes with a figure of one row and
\* that many columns, each subplot holding a rendered band.
C1_OneRowOfBands ==
    (Ended /\ Readable /\ RequestedBands \in 1..3) =>
        /\ pc = "returned"
        /\ fig.exists /\ fig.nrows = 1 /\ fig.ncols = RequestedBands
        /\ Len(axe) = RequestedBands
        /\ Rendered = 1..RequestedBands

\* C2: a call without n_bands on a raster of four or more bands never has a
\* figure or a subplot, and when it ends it has raised the unsupported
\* band count error.
C2_UnsupportedNoFigure ==
    (InCall /\ file.exists /\ args.n_bands = None /\ file.RasterCount >= 4) =>
        /\ ~fig.exists
        /\ axe = << >>
        /\ Ended => (pc = "raised" /\ error = "Unsupported")

\* C2 happens: a raster of four or more bands was read to its end and refused
C2_Witness ==
    /\ pc = "raised" /\ error = "Unsupported"
    /\ args.n_bands = None /\ file.RasterCount >= 4
    /\ Len(lst_arrs) = file.RasterCount
    /\ ds = "None"

\* C3: a call with an n_bands override of four or more ends, on every raster
\* that can be opened, with the unsupported band count error and no other.
C3_OverrideUnsupported ==
    (Ended /\ file.exists /\ args.n_bands # None /\ args.n_bands.v >= 4) =>
        (pc = "raised" /\ error = "Unsupported")

\* C4: for a band count of 1, 2 or 3 and every layer type, each subplot gets
\* its title: the ENU title of its position for the layer type ENU, the
\* basename of the layer type otherwise; no title is ever missing.
C4_EverySubplotTitled ==
    (Ended /\ Readable /\ RequestedBands \in 1..3) =>
        /\ error # "IndexError"
        /\ \A a \in 1..RequestedBands :
              /\ a <= Len(axe)
              /\ axe[a].title = << IF lay_type = s_ENU THEN ENUTitle[a]
                                   ELSE Basename(lay_type) >>

\* C5 as claimed: a finished ENU render has the titles East, North, Up in
\* that order and a band count of 3.
C5_ENUNeedsThreeBands ==
    (pc = "returned" /\ lay_type = s_ENU) =>
        /\ n_bands.v = 3
        /\ [a \in 1..Len(axe) |-> axe[a].title] = << <<s_East>>, <<s_North>>, <<s_Up>> >>

\* C5 as amended: in an ENU render the subplot at position a, once titled,
\* has the a-th of East, North, Up; a finished ENU render has 1, 2 or 3
\* subplots, all titled, so exactly East, North, Up when it has 3.
C5_ENUTitlesByPosition ==
    (InCall /\ lay_type = s_ENU) =>
        /\ \A a \in 1..Len(axe) :
              axe[a].title # << >> =>
                  axe[a].title = << << s_East, s_North, s_Up >>[a] >>
        /\ pc = "returned" =>
              /\ Len(axe) \in 1..3
              /\ \A a \in 1..Len(axe) : axe[a].title # << >>

\* C5 happens: a finished ENU render of three bands
C5_Witness ==
    /\ pc = "returned" /\ lay_type = s_ENU /\ n_bands.v = 3
    /\ [a \in 1..Len(axe) |-> axe[a].title] = << <<s_East>>, <<s_North>>, <<s_Up>> >>

\* The rules of the style, in the order the claim gives them
C6_Matches(lt) ==
    << EndsWith(lt, s_amplitude),
       EndsWith(lt, s_coherence),
       EndsWith(lt, s_incidenceAngle),
       StartsWith(lt, s_water),
       StartsWith(lt, s_defo),
       StartsWith(lt, s_terr) \/ StartsWith(lt, s_topo),
       lt = s_ENU,
       TRUE >>

C6_Colormaps == {"Greys_r", "Greys", "coolwarm", "terrain"}

\* The style of each rule: the bounds, and the colormaps the rule allows
\* (the ENU rule names none)
C6_Styles ==
    << [vmin |-> None, vmax |-> Num(2000), cmaps |-> {"Greys_r"}],
       [vmin |-> Num(0), vmax |-> Num(1), cmaps |-> {"Greys_r"}],
       [vmin |-> None, vmax |-> None, cmaps |-> {"Greys_r"}],
       [vmin |-> Num(0), vmax |-> Num(1), cmaps |-> {"Greys"}],
       [vmin |-> None, vmax |-> None, cmaps |-> {"coolwarm"}],
       [vmin |-> None, vmax |-> None, cmaps |-> {"terrain"}],
       [vmin |-> None, vmax |-> None, cmaps |-> C6_Colormaps],
       [vmin |-> None, vmax |-> None, cmaps |-> {"coolwarm"}] >>

C6_FirstMatch(lt) ==
    CHOOSE r \in 1..8 : C6_Matches(lt)[r] /\ \A q \in 1..(r - 1) : ~C6_Matches(lt)[q]

\* the style has been chosen in this call
StyleChosen == InCall /\ vmin # Unbound

\* C6: once the style is chosen it is the style of the first rule the layer
\* type matches, and every band is rendered with it.
C6_FirstRuleWins ==
    StyleChosen =>
        LET rule == C6_Styles[C6_FirstMatch(lay_type)]
        IN  /\ vmin = rule.vmin /\ vmax = rule.vmax /\ cmap \in rule.cmaps
            /\ \A a \in Rendered :
                  /\ axe[a].image[1].vmin = rule.vmin
                  /\ axe[a].image[1].vmax = rule.vmax
                  /\ axe[a].image[1].cmap \in rule.cmaps

\* C6 happens: a band is rendered for a layer type that matches two rules
\* whose styles differ
C6_Witness ==
    /\ Rendered # {}
    /\ EndsWith(lay_type, s_amplitude) /\ StartsWith(lay_type, s_water)
    /\ \A a \in Rendered : axe[a].image[1].vmax = Num(2000)

\* C7: for a layer type that starts with "water", every colorbar drawn has
\* its ticks at 0 and 1.
C7_WaterTicks ==
    (InCall /\ StartsWith(lay_type, s_water)) =>
        \A a \in WithColorbar : axe[a].colorbar[1].ticks = <<Num(0), Num(1)>>

\* C8: for a layer type that ends with "coherence", every band is rendered
\* with the colour bounds 0 and 1.
C8_CoherenceBounds ==
    (InCall /\ EndsWith(lay_type, s_coherence)) =>
        \A a \in Rendered :
            axe[a].image[1].vmin = Num(0) /\ axe[a].image[1].vmax = Num(1)

\* C8 happens: a band with an unmasked value above 1 is rendered for a layer
\* type that ends with "coherence"
C8_Witness ==
    /\ EndsWith(lay_type, s_coherence)
    /\ \E a \in Rendered :
          /\ axe[a].image[1].arr.data[1][1] = Num(BigValue)
          /\ ~axe[a].image[1].arr.mask[1][1]
          /\ axe[a].image[1].vmax = Num(1)

\* C9: when lay_type is omitted, the rules are matched against the last
\* segment of the directory of the raster: the style, the titles and the
\* colorbars are those of a call that passes this segment as lay_type.
C9_LabelIsLastSegment ==
    (StyleChosen /\ ~args.lay_type.given) =>
        LET segment == Basename(Dirname(args.path_layer))
            st == StyleOf(segment, "Greys_r", TitleOf(segment))
        IN  /\ vmin = st.vmin /\ vmax = st.vmax /\ cmap = st.cmap
            /\ title = st.title
            /\ \A a \in WithColorbar :
                  axe[a].colorbar[1] = ColorbarOf(segment, st.vmin, st.vmax)

\* C10: every pixel of every band read is masked exactly when its value is
\* above 1e20 or equal (as numbers compare) to the sentinel the band
\* declares; its value is kept; the rendered array is that masked array.
C10_MaskIffInvalid ==
    /\ \A b \in 1..Len(lst_arrs) :
          \A r \in DOMAIN file.bands[b].data :
              \A c \in DOMAIN file.bands[b].data[r] :
                  LET x == file.bands[b].data[r][c]
                      sentinel == file.bands[b].nodata
                  IN  /\ lst_arrs[b].data[r][c] = x
                      /\ lst_arrs[b].mask[r][c] <=>
                            \/ (x.k = "num" /\ x.v > 10)
                            \/ (x.k = "num" /\ sentinel.k = "num" /\ x.v = sentinel.v)
    /\ \A a \in Rendered : axe[a].image[1].arr = lst_arrs[a]

\* C10 happens: a rendered band holds a pixel masked for being the sentinel,
\* and another rendered band holds an unmasked pixel at exactly 1e20
C10_Witness ==
    /\ \E a \in Rendered :
          /\ axe[a].image[1].arr.data[1][1] = Num(0)
          /\ axe[a].image[1].arr.mask[1][1]
    /\ \E a \in Rendered :
          /\ axe[a].image[1].arr.data[1][1] = Num(BigValue)
          /\ ~axe[a].image[1].arr.mask[1][1]

\* the extent the claim gives for the raster at path_layer
C11_Extent ==
    << file.trans[1],
       file.trans[1] + file.RasterXSize * file.trans[2],
       file.trans[4] + file.RasterYSize * file.trans[6],
       file.trans[4] >>

\* C11: once computed, the extent is [x0, x0 + W*dx, y0 + H*dy, y0] of the
\* raster's geotransform and size, and every band is rendered over it.
C11_ExtentFromTransform ==
    (InCall /\ ds # "unbound") =>
        /\ extent = C11_Extent
        /\ \A a \in Rendered : axe[a].image[1].extent = C11_Extent

\* C11 happens: the 100 x 100 raster at (-120.0, 35.0) labelled topoHeight is
\* rendered over [-120.0, -119.0, 34.0, 35.0] with the terrain colormap
C11_Witness ==
    /\ file.RasterXSize = 100 /\ file.RasterYSize = 100
    /\ lay_type = s_topo \o s_Height
    /\ \E a \in Rendered :
          /\ axe[a].image[1].extent = <<0 - 12000, 0 - 11900, 3400, 3500>>
          /\ axe[a].image[1].cmap = "terrain"
          /\ axe[a].image[1].vmin = None /\ axe[a].image[1].vmax = None

\* the mask the claims give to pixel x of a band whose sentinel is absent
MagnitudeOnly(x) == x.k = "num" /\ x.v > 10

\* the mask the claims give to pixel x of a band that declares a sentinel
MagnitudeOrSentinel(x, sentinel) ==
    \/ x.k = "num" /\ x.v > 10
    \/ x.k = "num" /\ sentinel.k = "num" /\ x.v = sentinel.v

\* every pixel of band b, as read, has the mask that Masked(x) gives
BandMaskedBy(b, Masked(_)) ==
    \A r \in DOMAIN file.bands[b].data :
        \A c \in DOMAIN file.bands[b].data[r] :
            lst_arrs[b].mask[r][c] <=> Masked(file.bands[b].data[r][c])

\* C12: when the no-data lookup of a band raises (on a raster with 1, 2 or 3
\* bands), the call does not fail: that band is masked by magnitude only and
\* noted, the other bands are masked with their own sentinel, and the plot
\* is produced with every band rendered.
C12_LookupFailureRecovered ==
    (/\ Ended /\ Readable /\ RequestedBands \in 1..3
     /\ \E b \in 1..RequestedBands : file.bands[b].nodata = Raises) =>
        /\ pc = "returned"
        /\ Len(lst_arrs) = RequestedBands
        /\ \A b \in 1..Len(lst_arrs) :
              IF file.bands[b].nodata = Raises
              THEN b \in notes /\ BandMaskedBy(b, MagnitudeOnly)
              ELSE LET Own(x) == MagnitudeOrSentinel(x, file.bands[b].nodata)
                   IN  BandMaskedBy(b, Own)
        /\ Rendered = 1..RequestedBands

\* C13: in a call on a path that cannot be opened no step reads a band,
\* makes a figure or an axes, binds the handle or changes a shared colormap,
\* and the call ends by raising the open error.
C13_OpenFailureTouchesNothing ==
    [][ (pc' # "idle" /\ ~file'.exists) =>
            /\ colormaps' = colormaps
            /\ lst_arrs' = << >>
            /\ ~fig'.exists /\ axe' = << >>
            /\ ds' = "unbound"
            /\ pc' \in {"open", "raised"}
            /\ pc' = "raised" => error' = "OpenError" ]_vars

\* C13 happens: a call on a path that cannot be opened has raised, after an
\* earlier call has set the under colour of the shared reversed grey
C13_Witness ==
    /\ pc = "raised" /\ error = "OpenError" /\ ~file.exists
    /\ colormaps["Greys_r"] = "black"

\* C14: whenever the call has a figure or is past the band loop, the handle
\* has been released and every band of range(n_bands) has been read; and,
\* once the handle is released, no step of the call reads a band, queries
\* the raster or binds the handle again.
C14_ReleasedBeforeFigure ==
    /\ [](( InCall /\ (fig.exists \/ pc \in {"layout", "figure", "style", "plot", "returned"}) ) =>
            (ds = "None" /\ Len(lst_arrs) >= n_bands.v))
    /\ [][ (ds = "None" /\ pc' # "idle") =>
              /\ ds' = "None"
              /\ lst_arrs' = lst_arrs /\ notes' = notes
              /\ extent' = extent /\ n_bands' = n_bands ]_vars

\* C14 happens: three subplots are drawn, all three bands read, no handle held
C14_Witness ==
    /\ Rendered = 1..3
    /\ Len(lst_arrs) = 3
    /\ ds = "None"

\* C15: every call leaves the shared colormaps as it found them, so that
\* whenever the caller is in control they are as the library made them.
C15_ColormapsAsBefore ==
    pc \in {"idle", "returned", "raised"} =>
        \A c \in DOMAIN colormaps : colormaps[c] = "default"

\* the masked array the raster's band b gives, whatever the call's label
C16_Array(b) ==
    [ data |-> file.bands[b].data,
      mask |-> [r \in DOMAIN file.bands[b].data |->
                  [c \in DOMAIN file.bands[b].data[r] |->
                      IF file.bands[b].nodata = Raises
                      THEN MagnitudeOnly(file.bands[b].data[r][c])
                      ELSE MagnitudeOrSentinel(file.bands[b].data[r][c],
                                               file.bands[b].nodata)]] ]

\* C16: the arrays read and the arrays and the extent handed to the renderer
\* are given by the raster alone, band by band, the same for every layer
\* type; and no step from the choice of the style on changes them.
C16_DataIgnoresLayerType ==
    /\ [](InCall =>
            /\ \A b \in 1..Len(lst_arrs) : lst_arrs[b] = C16_Array(b)
            /\ \A a \in Rendered :
                  /\ axe[a].image[1].arr = C16_Array(a)
                  /\ axe[a].image[1].extent = C11_Extent)
    /\ [][ (pc \in {"style", "plot"} /\ pc' # "idle") =>
              (lst_arrs' = lst_arrs /\ extent' = extent) ]_vars

\* C16 happens: a coherence layer is rendered with a masked sentinel pixel
C16_Witness ==
    /\ EndsWith(lay_type, s_coherence)
    /\ \E a \in Rendered :
          /\ file.bands[a].nodata = Num(0)
          /\ axe[a].image[1].arr.data[1][1] = Num(0)
          /\ axe[a].image[1].arr.mask[1][1]

\* C17: with n_bands omitted, or an override k with 1 <= k <= RasterCount,
\* (for a band count of 1, 2 or 3) exactly the requested bands are rendered,
\* subplot a showing raster band a.
C17_BandsInRasterOrder ==
    (/\ Ended /\ file.exists /\ RequestedBands \in 1..3
     /\ (args.n_bands = None \/ args.n_bands.v \in 1..file.RasterCount)) =>
        /\ Rendered = 1..RequestedBands
        /\ \A a \in Rendered : axe[a].image[1].arr.data = file.bands[a].data

\* C18 as claimed: every pixel below -1e20 that is not the sentinel is masked.
C18_NegativeMagnitudeMasked ==
    \A b \in 1..Len(lst_arrs) :
        \A r \in DOMAIN file.bands[b].data :
            \A c \in DOMAIN file.bands[b].data[r] :
                LET x == file.bands[b].data[r][c]
                    sentinel == file.bands[b].nodata
                IN  ( /\ x.k = "num" /\ x.v < 0 - 10
                      /\ ~(sentinel.k = "num" /\ x.v = sentinel.v) ) =>
                        lst_arrs[b].mask[r][c]

\* C18 as amended: every pixel above 1e20 is masked; a pixel below -1e20
\* that is not the sentinel is not masked.
C18_OnlyAboveThresholdMasked ==
    \A b \in 1..Len(lst_arrs) :
        \A r \in DOMAIN file.bands[b].data :
            \A c \in DOMAIN file.bands[b].data[r] :
                LET x == file.bands[b].data[r][c]
                    sentinel == file.bands[b].nodata
                IN  /\ (x.k = "num" /\ x.v > 10) => lst_arrs[b].mask[r][c]
                    /\ ( /\ x.k = "num" /\ x.v < 0 - 10
                         /\ ~(sentinel.k = "num" /\ x.v = sentinel.v) ) =>
                           ~lst_arrs[b].mask[r][c]

\* C18 happens: a rendered band holds an unmasked pixel below -1e20, and a
\* rendered band holds a masked pixel above 1e20
C18_Witness ==
    /\ \E a \in Rendered :
          /\ axe[a].image[1].arr.data[1][1] = Num(0 - 11)
          /\ ~axe[a].image[1].arr.mask[1][1]
    /\ \E a \in Rendered :
          /\ axe[a].image[1].arr.data[1][1] = Num(11)
          /\ axe[a].image[1].arr.mask[1][1]

\* C19: every band read that exposes no no-data value, whether the lookup
\* raises or returns None, is masked by magnitude only and has its note.
C19_AbsentSentinelNoted ==
    \A b \in 1..Len(lst_arrs) :
        file.bands[b].nodata \in {None, Raises} =>
            /\ BandMaskedBy(b, MagnitudeOnly)
            /\ b \in notes

\* C20: a call that ended with a figure returned normally and every subplot
\* of the figure is rendered, titled and has its colorbar; a call that
\* raised has no figure.
C20_NoPartialPlot ==
    (Ended /\ fig.exists) =>
        /\ pc = "returned"
        /\ Len(axe) = fig.ncols
        /\ \A a \in 1..Len(axe) :
              axe[a].image # << >> /\ axe[a].colorbar # << >> /\ axe[a].title # << >>

\* C21: whenever the call is at the figure step or has a figure, the column
\* count it asks for, the resolved band count, is 1, 2 or 3.
C21_ColumnsOneToThree ==
    (InCall /\ (pc = "figure" \/ fig.exists)) =>
        (ncols \in 1..3 /\ n_bands.v = ncols)

\* the style of a call, from its own arguments alone
C22_Style ==
    StyleOf(LayTypeOf(args.path_layer, args.lay_type), "Greys_r",
            TitleOf(LayTypeOf(args.path_layer, args.lay_type)))

\* the below-minimum colour a colormap has in a first call
C22_UnderOf(c) == IF c = "Greys_r" THEN "black" ELSE "default"

\* C22: whatever calls were made before, what a call renders is given by its
\* own arguments and raster: every image (masked array, colormap and its
\* below-minimum colour, bounds, extent), every colorbar, every title and
\* the axis labels are those a first call produces.
C22_CallsIndependent ==
    InCall =>
        /\ \A a \in Rendered :
              /\ axe[a].image[1] =
                    [arr |-> C16_Array(a), cmap |-> C22_Style.cmap,
                     under |-> C22_UnderOf(C22_Style.cmap),
                     vmin |-> C22_Style.vmin, vmax |-> C22_Style.vmax,
                     extent |-> C11_Extent]
              /\ axe[a].colorbar =
                    << ColorbarOf(LayTypeOf(args.path_layer, args.lay_type),
                                  C22_Style.vmin, C22_Style.vmax) >>
        /\ \A a \in 1..Len(axe) :
              /\ axe[a].title # << >> => axe[a].title = << C22_Style.title[a] >>
              /\ axe[a].ylabel \in {"", "latitude"}
              /\ axe[a].xlabel \in {"", "longitude"}
        /\ fig.exists /\ pc \in {"plot", "returned"} => fig.wspace = C22_Style.wspace

\* C22 happens: a later call has returned a band rendered with the reversed
\* grey colormap
C22_Witness ==
    /\ calls > 1
    /\ pc = "returned"
    /\ \E a \in Rendered :
          axe[a].image[1].cmap = "Greys_r" /\ axe[a].image[1].under = "black"

\* the 1-based position of subplot floor(n/2), n = 1, 2, 3
C23_Middle == <<1, 2, 2>>

C24_Ordered(e) == e[1] <= e[2] /\ e[3] <= e[4]

\* C24: for a geotransform with a positive horizontal and a negative vertical
\* pixel size the extent computed, and handed to the renderer, is ordered
\* left <= right and bottom <= top; so it is for every size W, H >= 0.
C24_ExtentOrdered ==
    /\ (InCall /\ ds # "unbound" /\ file.trans[2] > 0 /\ file.trans[6] < 0) =>
          /\ C24_Ordered(extent)
          /\ \A a \in Rendered : C24_Ordered(axe[a].image[1].extent)
    /\ \A t \in GeoTransforms : \A W \in 0..MaxSize : \A H \in 0..MaxSize :
          (t[2] > 0 /\ t[6] < 0) => C24_Ordered(ExtentOf(t, W, H))

\* C24 happens: a raster of two rows of height 0.02 is rendered, bottom
\* strictly below top and left strictly left of right
C24_Witness ==
    /\ file.RasterYSize = 2
    /\ file.trans[6] = 0 - 2
    /\ \E a \in Rendered :
          /\ axe[a].image[1].extent[3] = axe[a].image[1].extent[4] - 4
          /\ axe[a].image[1].extent[1] < axe[a].image[1].extent[2]

\* C25: no call ends on the request of a band the raster does not have.
C25_BandsRequestedExist ==
    pc = "raised" => error # "BandError"

\* C26: when a call that opened the raster ends, returned or raised, the
\* handle has been released.
C26_ReleasedOnExit ==
    (Ended /\ ds # "unbound") => ds = "None"

\* C27: the cmap argument and the extra keywords are not used: the colormap
\* is reversed grey when the rules run, and the style chosen and the style
\* every band is rendered with are those of the layer type alone.
C27_CmapArgIgnored ==
    /\ pc = "style" => cmap = "Greys_r"
    /\ StyleChosen =>
          LET st == StyleOf(lay_type, "Greys_r", TitleOf(lay_type))
          IN  /\ cmap = st.cmap /\ vmin = st.vmin /\ vmax = st.vmax
              /\ title = st.title
              /\ \A a \in Rendered :
                    /\ axe[a].image[1].cmap = st.cmap
                    /\ axe[a].image[1].vmin = st.vmin
                    /\ axe[a].image[1].vmax = st.vmax

\* C27 happens: a call given cmap='jet' and an extra keyword has returned a
\* band rendered in reversed grey
C27_Witness ==
    /\ args.cmap = "jet"
    /\ args.kwargs # {}
    /\ pc = "returned"
    /\ \E a \in Rendered : axe[a].image[1].cmap = "Greys_r"

\* C28: an override of 0 resolves as an omitted one does, to the band count
\* of the raster; a call with an override of 0 that returns has rendered
\* every band of the raster, at least one.
C28_ZeroIsOmitted ==
    /\ \A count \in 0..MaxRasterCount :
          ResolveNBands(Num(0), count) = ResolveNBands(None, count)
    /\ (args.n_bands = Num(0) /\ file.exists /\ pc \notin {"idle", "open", "load"}) =>
          /\ n_bands = Num(file.RasterCount)
          /\ pc = "returned" => (Rendered = 1..file.RasterCount /\ Rendered # {})

\* C28 happens: a call with n_bands=0 on a raster of three bands has
\* returned with the three bands rendered
C28_Witness ==
    /\ args.n_bands = Num(0)
    /\ pc = "returned"
    /\ file.RasterCount = 3
    /\ Rendered = 1..3

\* the attributes a reader must have once load_weather has run
C29_Required ==
    {"_lats", "_lons", "_xs", "_ys", "_zs", "_p", "_t"}
    \cup {IF reader.humidityType = "q" THEN "_q" ELSE "_rh"}

\* C29: load_weather never reads a local before it is bound, and when it
\* has returned every required attribute has been assigned.
C29_LoadWeatherAssigns ==
    /\ reader.error # "UnboundLocalError"
    /\ reader.pc = "returned" => \A a \in C29_Required : reader.attrs[a] # Unbound

=============================================================================
